---- MODULE Spec2Model ----
(***************************************************************************)
(* Board engine of the Minesweeper game (src/board.py), driven by the      *)
(* click handler and reset.  The grid dimensions and the mine count are    *)
(* the module globals of src/settings.py; they are drawn here from small   *)
(* ranges instead of the fixed 16 x 16 / 40.                               *)
(***************************************************************************)
EXTENDS Integers, Sequences, FiniteSets, TLC

\* ---- bounds of the model ------------------------------------------------
\* grids of at most MaxRows x MaxCols and at most MaxCells cells, at most
\* MaxMines requested mines, at most MaxFlags flags placed by the player
MaxRows == 2
MaxCols == 3
MaxCells == 6
MaxMines == 2
MaxFlags == 1

\* ---- constants of src/settings.py ----------------------------------------
WIDTH == 800
HEIGHT == 650
FIXED_GAME_AREA_WIDTH == 600
FIXED_GAME_AREA_HEIGHT == 600
TOP_BAR_OFFSET == 25
HIDDEN == 0
REVEALED == 1
FLAGGED == 2
MINE_VALUE == 0 - 1
LEFT_BUTTON == 1
RIGHT_BUTTON == 3
HOME == 0
COLOUR_SETTINGS == 1
PLAYING == 2

VARIABLES
    GRID_ROWS,        \* settings.GRID_ROWS
    GRID_COLS,        \* settings.GRID_COLS
    NUM_MINES,        \* settings.NUM_MINES
    rows,             \* Board.rows
    cols,             \* Board.cols
    mines,            \* Board.mines
    grid,             \* Board.grid : cell -> MINE_VALUE or neighbour count
    cell_states,      \* Board.cell_states : cell -> HIDDEN/REVEALED/FLAGGED
    flags_placed,     \* Board.flags_placed
    mines_location,   \* Board.mines_location
    first_click,      \* Board.first_click
    game_over,        \* Board.game_over
    game_won,         \* Board.game_won
    last,             \* the call that produced the current state
    placement,        \* the locals of a _place_mines call in progress
    current_state,    \* main: the screen, a GameState
    game_board        \* main: TRUE when game_board is a Board, FALSE when None

settings == <<GRID_ROWS, GRID_COLS, NUM_MINES>>
board == <<rows, cols, mines, grid, cell_states, flags_placed,
           mines_location, first_click, game_over, game_won>>
vars == <<GRID_ROWS, GRID_COLS, NUM_MINES, rows, cols, mines, grid,
          cell_states, flags_placed, mines_location, first_click,
          game_over, game_won, last, placement, current_state, game_board>>
app == <<current_state, game_board>>

Min(a, b) == IF a < b THEN a ELSE b

\* ---- geometry (src/settings.py) -------------------------------------------
CELL_WIDTH == FIXED_GAME_AREA_WIDTH \div GRID_COLS
CELL_HEIGHT == FIXED_GAME_AREA_HEIGHT \div GRID_ROWS
CELL_SIZE == Min(CELL_WIDTH, CELL_HEIGHT)
GAME_AREA_WIDTH == CELL_SIZE * GRID_COLS
GAME_AREA_HEIGHT == CELL_SIZE * GRID_ROWS
GAME_AREA_X == (WIDTH - GAME_AREA_WIDTH) \div 2
GAME_AREA_Y == ((HEIGHT - GAME_AREA_HEIGHT) \div 2) + TOP_BAR_OFFSET

\* ---- the grid --------------------------------------------------------------
Cells == (0 .. rows - 1) \X (0 .. cols - 1)

InBounds(nr, nc) == 0 <= nr /\ nr < rows /\ 0 <= nc /\ nc < cols

\* the eight (i, j) offsets in the order of the nested range(-1, 2) loops,
\* (0, 0) skipped
Offsets == << <<0 - 1, 0 - 1>>, <<0 - 1, 0>>, <<0 - 1, 1>>,
              <<0, 0 - 1>>,                   <<0, 1>>,
              <<1, 0 - 1>>,     <<1, 0>>,     <<1, 1>> >>

\* ---- Board._place_mines -----------------------------------------------------
SafeZoneOnlyClicked(first_click_row, first_click_col) ==
    { <<first_click_row, first_click_col>> } \cap Cells

SafeZone(first_click_row, first_click_col) ==
    { <<first_click_row + ro, first_click_col + co>> :
          ro \in (0 - 1) .. 1, co \in (0 - 1) .. 1 } \cap Cells

MaxPossibleMines(safe_zone) == (rows * cols) - Cardinality(safe_zone)

MinesToPlaceUnclamped(m, safe_zone) == m

MinesToPlace(m, safe_zone) == Min(m, MaxPossibleMines(safe_zone))

\* the sampling loop: every set of locations the loop can end with.  A sample
\* that is already a mine or lies in the safe zone leaves the state as it is.
RECURSIVE PlaceLoop(_, _, _)
PlaceLoop(loc, safe_zone, mines_to_place) ==
    IF Cardinality(loc) < mines_to_place
    THEN UNION { PlaceLoop(loc \cup {x}, safe_zone, mines_to_place) :
                     x \in Cells \ (loc \cup safe_zone) }
    ELSE {loc}

PlaceMines(m, first_click_row, first_click_col) ==
    LET safe_zone == SafeZone(first_click_row, first_click_col)
    IN  PlaceLoop({}, safe_zone, MinesToPlace(m, safe_zone))

MarkMines(g, loc) == [x \in Cells |-> IF x \in loc THEN MINE_VALUE ELSE g[x]]

UpdatedMineCountKept(m, first_click_row, first_click_col) == m

UpdatedMineCount(m, first_click_row, first_click_col) ==
    MinesToPlace(m, SafeZone(first_click_row, first_click_col))

\* ---- Board._calculate_adjacent_mines ------------------------------------------
RECURSIVE CountFromNoDiagonals(_, _, _, _)
CountFromNoDiagonals(g, r, c, k) ==
    IF k > Len(Offsets) THEN 0
    ELSE LET nr == r + Offsets[k][1]
             nc == c + Offsets[k][2]
         IN  (IF /\ (Offsets[k][1] = 0 \/ Offsets[k][2] = 0)
                 /\ InBounds(nr, nc) /\ g[<<nr, nc>>] = MINE_VALUE
              THEN 1 ELSE 0)
             + CountFromNoDiagonals(g, r, c, k + 1)

RECURSIVE CountFrom(_, _, _, _)
CountFrom(g, r, c, k) ==
    IF k > Len(Offsets) THEN 0
    ELSE LET nr == r + Offsets[k][1]
             nc == c + Offsets[k][2]
         IN  (IF InBounds(nr, nc) /\ g[<<nr, nc>>] = MINE_VALUE THEN 1 ELSE 0)
             + CountFrom(g, r, c, k + 1)

CalculateAdjacentMines(g) ==
    [x \in Cells |-> IF g[x] # MINE_VALUE THEN CountFrom(g, x[1], x[2], 1)
                     ELSE g[x]]

\* ---- Board._reveal_all_mines ---------------------------------------------------
RevealAllMinesAlsoFlagged(cs, g) ==
    [x \in Cells |-> IF g[x] = MINE_VALUE THEN REVEALED ELSE cs[x]]

RevealAllMines(cs, g) ==
    [x \in Cells |-> IF g[x] = MINE_VALUE /\ cs[x] # FLAGGED THEN REVEALED
                     ELSE cs[x]]

\* ---- Board.reveal ----------------------------------------------------------------
\* b = [cs |-> cell states, over |-> game_over]
RECURSIVE Reveal(_, _, _, _)
RECURSIVE RevealNeighbours(_, _, _, _, _)
RECURSIVE RevealNeighboursAlsoFlagged(_, _, _, _, _)
\* a reveal that does not go on to the neighbours of a zero-count cell
RevealWithoutCascade(b, g, row, col) ==
    IF b.over \/ b.cs[<<row, col>>] = REVEALED THEN b
    ELSE LET b1 == [b EXCEPT !.cs[<<row, col>>] = REVEALED]
         IN  IF g[<<row, col>>] = MINE_VALUE
             THEN [cs |-> RevealAllMines(b1.cs, g), over |-> TRUE]
             ELSE b1

\* a mine hit that does not end the game
RevealKeepsPlaying(b, g, row, col) ==
    IF b.over \/ b.cs[<<row, col>>] = REVEALED THEN b
    ELSE LET b1 == [b EXCEPT !.cs[<<row, col>>] = REVEALED]
         IN  IF g[<<row, col>>] = MINE_VALUE
             THEN [cs |-> RevealAllMines(b1.cs, g), over |-> b.over]
             ELSE IF g[<<row, col>>] = 0
                  THEN RevealNeighbours(b1, g, row, col, 1)
                  ELSE b1

Reveal(b, g, row, col) ==
    IF b.over \/ b.cs[<<row, col>>] = REVEALED THEN b
    ELSE LET b1 == [b EXCEPT !.cs[<<row, col>>] = REVEALED]
         IN  IF g[<<row, col>>] = MINE_VALUE
             THEN [cs |-> RevealAllMines(b1.cs, g), over |-> TRUE]
             ELSE IF g[<<row, col>>] = 0
                  THEN RevealNeighbours(b1, g, row, col, 1)
                  ELSE b1

RevealNeighboursAlsoFlagged(b, g, row, col, k) ==
    IF k > Len(Offsets) THEN b
    ELSE LET nr == row + Offsets[k][1]
             nc == col + Offsets[k][2]
         IN  IF InBounds(nr, nc) /\ b.cs[<<nr, nc>>] # REVEALED
             THEN RevealNeighboursAlsoFlagged(Reveal(b, g, nr, nc), g, row,
                                              col, k + 1)
             ELSE RevealNeighboursAlsoFlagged(b, g, row, col, k + 1)

RevealNeighbours(b, g, row, col, k) ==
    IF k > Len(Offsets) THEN b
    ELSE LET nr == row + Offsets[k][1]
             nc == col + Offsets[k][2]
         IN  IF InBounds(nr, nc) /\ b.cs[<<nr, nc>>] = HIDDEN
             THEN RevealNeighbours(Reveal(b, g, nr, nc), g, row, col, k + 1)
             ELSE RevealNeighbours(b, g, row, col, k + 1)

\* reveal with its calls measured: t = [cs, over, writes, deepest], writes[x]
\* the number of times line 151 has set cell x to REVEALED, deepest the
\* greatest nesting depth of a reveal call so far; depth is the nesting
\* depth of this call
RECURSIVE RevealTraced(_, _, _, _, _)
RECURSIVE RevealNeighboursTraced(_, _, _, _, _, _)
RECURSIVE RevealNeighboursTracedAlsoRevealed(_, _, _, _, _, _)
RevealTraced(t, g, row, col, depth) ==
    LET t0 == [t EXCEPT !.deepest = IF depth > t.deepest THEN depth
                                    ELSE t.deepest]
    IN  IF t0.over \/ t0.cs[<<row, col>>] = REVEALED THEN t0
        ELSE LET t1 == [t0 EXCEPT !.cs[<<row, col>>] = REVEALED,
                                  !.writes[<<row, col>>] = @ + 1]
             IN  IF g[<<row, col>>] = MINE_VALUE
                 THEN [t1 EXCEPT !.cs = RevealAllMines(t1.cs, g),
                                 !.over = TRUE]
                 ELSE IF g[<<row, col>>] = 0
                      THEN RevealNeighboursTraced(t1, g, row, col, 1, depth)
                      ELSE t1

RevealNeighboursTracedAlsoRevealed(t, g, row, col, k, depth) ==
    IF k > Len(Offsets) THEN t
    ELSE LET nr == row + Offsets[k][1]
             nc == col + Offsets[k][2]
         IN  IF InBounds(nr, nc) /\ t.cs[<<nr, nc>>] # FLAGGED
             THEN RevealNeighboursTracedAlsoRevealed(
                      RevealTraced(t, g, nr, nc, depth + 1),
                      g, row, col, k + 1, depth)
             ELSE RevealNeighboursTracedAlsoRevealed(t, g, row, col, k + 1,
                                                     depth)

RevealNeighboursTraced(t, g, row, col, k, depth) ==
    IF k > Len(Offsets) THEN t
    ELSE LET nr == row + Offsets[k][1]
             nc == col + Offsets[k][2]
         IN  IF InBounds(nr, nc) /\ t.cs[<<nr, nc>>] = HIDDEN
             THEN RevealNeighboursTraced(RevealTraced(t, g, nr, nc, depth + 1),
                                         g, row, col, k + 1, depth)
             ELSE RevealNeighboursTraced(t, g, row, col, k + 1, depth)

\* the measurements before a top-level call of reveal
Untraced(cs, over) ==
    [cs |-> cs, over |-> over, writes |-> [x \in Cells |-> 0], deepest |-> 0]

\* ---- Board.toggle_flag -------------------------------------------------------------
\* f = [cs |-> cell states, flags |-> flags_placed]
ToggleFlagKeepsCount(f, row, col) ==
    IF f.cs[<<row, col>>] = HIDDEN
    THEN [cs |-> [f.cs EXCEPT ![<<row, col>>] = FLAGGED], flags |-> f.flags + 1]
    ELSE IF f.cs[<<row, col>>] = FLAGGED
         THEN [cs |-> [f.cs EXCEPT ![<<row, col>>] = HIDDEN], flags |-> f.flags]
         ELSE f

\* the flag limit that toggle_flag has commented out
ToggleFlagCapped(f, row, col) ==
    IF f.cs[<<row, col>>] = HIDDEN
    THEN IF f.flags < mines
         THEN [cs |-> [f.cs EXCEPT ![<<row, col>>] = FLAGGED],
               flags |-> f.flags + 1]
         ELSE f
    ELSE IF f.cs[<<row, col>>] = FLAGGED
         THEN [cs |-> [f.cs EXCEPT ![<<row, col>>] = HIDDEN],
               flags |-> f.flags - 1]
         ELSE f

ToggleFlag(f, row, col) ==
    IF f.cs[<<row, col>>] = HIDDEN
    THEN [cs |-> [f.cs EXCEPT ![<<row, col>>] = FLAGGED], flags |-> f.flags + 1]
    ELSE IF f.cs[<<row, col>>] = FLAGGED
         THEN [cs |-> [f.cs EXCEPT ![<<row, col>>] = HIDDEN],
               flags |-> f.flags - 1]
         ELSE f

\* ---- Board._check_win ----------------------------------------------------------------
RevealedCount(cs, g) ==
    Cardinality({x \in Cells : cs[x] = REVEALED /\ g[x] # MINE_VALUE})

TotalNonMines(m) == (rows * cols) - m

IsWin(cs, g, m) == RevealedCount(cs, g) = TotalNonMines(m)

AutoFlaggedNone(g, cs) == {}

AutoFlagged(g, cs) == {x \in Cells : g[x] = MINE_VALUE /\ cs[x] = HIDDEN}

\* w = [cs, flags, over, won]
CheckWinLeavesGameOver(w, g, m) ==
    IF IsWin(w.cs, g, m)
    THEN [cs    |-> [x \in Cells |-> IF x \in AutoFlagged(g, w.cs) THEN FLAGGED
                                     ELSE w.cs[x]],
          flags |-> w.flags + Cardinality(AutoFlagged(g, w.cs)),
          over  |-> w.over,
          won   |-> TRUE]
    ELSE w

CheckWin(w, g, m) ==
    IF IsWin(w.cs, g, m)
    THEN [cs    |-> [x \in Cells |-> IF x \in AutoFlagged(g, w.cs) THEN FLAGGED
                                     ELSE w.cs[x]],
          flags |-> w.flags + Cardinality(AutoFlagged(g, w.cs)),
          over  |-> TRUE,
          won   |-> TRUE]
    ELSE w

\* ---- Board.__init__ / Board.reset -----------------------------------------------------
EmptyGrid(nrows, ncols) == [x \in (0 .. nrows - 1) \X (0 .. ncols - 1) |-> 0]

HiddenStates(nrows, ncols) ==
    [x \in (0 .. nrows - 1) \X (0 .. ncols - 1) |-> HIDDEN]

\* ---- the call that produced the current state ---------------------------------------
\* phase: the board before the call; path: how far handle_click went; row,
\* col and was (the state of the cell before the call) are those of the cell
\* whose state the call read, and are blank when it read none: on the early
\* returns and on a button that is neither left nor right
Phase(first, over, won) ==
    IF won THEN "won" ELSE IF over THEN "lost"
    ELSE IF first THEN "unmined" ELSE "progress"

\* no _place_mines call is in progress
NoPlacement == [pc |-> "idle", first_click_row |-> 0 - 1,
                first_click_col |-> 0 - 1, safe_zone |-> {},
                placed_mines |-> 0, mines_to_place |-> 0,
                row |-> 0 - 1, col |-> 0 - 1]

NoCall == [op |-> "init", path |-> "none", phase |-> "unmined", button |-> 0,
           row |-> 0 - 1, col |-> 0 - 1, was |-> HIDDEN]

Call(op, path, button, row, col) ==
    [op |-> op, path |-> path,
     phase |-> Phase(first_click, game_over, game_won), button |-> button,
     row |-> row, col |-> col, was |-> cell_states[<<row, col>>]]

EarlyReturn(path) ==
    [NoCall EXCEPT !.op = "click", !.path = path,
                   !.phase = Phase(first_click, game_over, game_won)]

Init ==
    /\ GRID_ROWS \in 1 .. MaxRows
    /\ GRID_COLS \in 1 .. Min(MaxCols, MaxCells \div GRID_ROWS)
    /\ NUM_MINES \in 0 .. MaxMines
    /\ rows = GRID_ROWS
    /\ cols = GRID_COLS
    /\ mines = NUM_MINES
    /\ grid = EmptyGrid(GRID_ROWS, GRID_COLS)
    /\ cell_states = HiddenStates(GRID_ROWS, GRID_COLS)
    /\ flags_placed = 0
    /\ mines_location = {}
    /\ first_click = TRUE
    /\ game_over = FALSE
    /\ game_won = FALSE
    /\ last = NoCall
    /\ placement = NoPlacement
    /\ current_state = PLAYING
    /\ game_board = TRUE

\* a reset that keeps the mine count of the finished game
ResetKeepsMines ==
    /\ rows' = GRID_ROWS
    /\ cols' = GRID_COLS
    /\ mines' = mines
    /\ grid' = EmptyGrid(GRID_ROWS, GRID_COLS)
    /\ cell_states' = HiddenStates(GRID_ROWS, GRID_COLS)
    /\ flags_placed' = 0
    /\ mines_location' = {}
    /\ first_click' = TRUE
    /\ game_over' = FALSE
    /\ game_won' = FALSE
    /\ last' = [NoCall EXCEPT !.op = "reset",
                              !.phase = Phase(first_click, game_over, game_won)]
    /\ UNCHANGED settings
    /\ UNCHANGED placement
    /\ UNCHANGED app

Reset ==
    /\ rows' = GRID_ROWS
    /\ cols' = GRID_COLS
    /\ mines' = NUM_MINES
    /\ grid' = EmptyGrid(GRID_ROWS, GRID_COLS)
    /\ cell_states' = HiddenStates(GRID_ROWS, GRID_COLS)
    /\ flags_placed' = 0
    /\ mines_location' = {}
    /\ first_click' = TRUE
    /\ game_over' = FALSE
    /\ game_won' = FALSE
    /\ last' = [NoCall EXCEPT !.op = "reset",
                              !.phase = Phase(first_click, game_over, game_won)]
    /\ UNCHANGED settings
    /\ UNCHANGED placement
    /\ UNCHANGED app

\* ---- Board.handle_click ------------------------------------------------------------------
\* the buttons of a MOUSEBUTTONDOWN event: left, middle, right
Buttons == LEFT_BUTTON .. RIGHT_BUTTON

\* window pixels of a click: the top-left pixel of every cell, and the pixels
\* just outside each edge and corner of the game area
MousePositions ==
    { <<GAME_AREA_X + (c * CELL_SIZE), GAME_AREA_Y + (r * CELL_SIZE)>> :
          r \in 0 .. GRID_ROWS - 1, c \in 0 .. GRID_COLS - 1 }
        \cup { <<GAME_AREA_X - 1, GAME_AREA_Y>>,
               <<GAME_AREA_X + GAME_AREA_WIDTH, GAME_AREA_Y>>,
               <<GAME_AREA_X, GAME_AREA_Y - 1>>,
               <<GAME_AREA_X, GAME_AREA_Y + GAME_AREA_HEIGHT>>,
               <<GAME_AREA_X + GAME_AREA_WIDTH - 1,
                 GAME_AREA_Y + GAME_AREA_HEIGHT - 1>> }

\* division that rounds towards zero
ClickColTruncating(mouse_pos) ==
    IF mouse_pos[1] < GAME_AREA_X
    THEN 0 - ((GAME_AREA_X - mouse_pos[1]) \div CELL_SIZE)
    ELSE (mouse_pos[1] - GAME_AREA_X) \div CELL_SIZE

ClickCol(mouse_pos) == (mouse_pos[1] - GAME_AREA_X) \div CELL_SIZE

ClickRow(mouse_pos) == (mouse_pos[2] - GAME_AREA_Y) \div CELL_SIZE

\* the early return of a finished game
FinishedOnlyWhenWon(over, won) == won

FinishedOnlyWhenLost(over, won) == over /\ ~won

Finished(over, won) == over \/ won

\* the first left click places the mines
PlacingOnEveryLeftClick(button, first) == button = LEFT_BUTTON

Placing(button, first) == button = LEFT_BUTTON /\ first

\* the left-click branch reveals only a cell that is not flagged
MayRevealAlsoFlagged(button, state) == button = LEFT_BUTTON

MayReveal(button, state) == button = LEFT_BUTTON /\ state # FLAGGED

\* the right-click branch toggles only a cell that is not revealed
MayToggle(button, state) == button = RIGHT_BUTTON /\ state # REVEALED

\* the win check that ends every in-range click of a game that is not over
AfterCheck(m1, g1, loc, first, w0) ==
    LET w1 == IF ~w0.over THEN CheckWin(w0, g1, m1) ELSE w0
    IN  [mines |-> m1, grid |-> g1, loc |-> loc, first |-> first,
         cs |-> w1.cs, flags |-> w1.flags, over |-> w1.over, won |-> w1.won]

\* the left-click and right-click branches
Branches(m1, g1, loc, first, row, col, button) ==
    IF MayReveal(button, cell_states[<<row, col>>])
    THEN LET b1 == Reveal([cs |-> cell_states, over |-> game_over],
                          g1, row, col)
         IN  AfterCheck(m1, g1, loc, first,
                        [cs |-> b1.cs, flags |-> flags_placed,
                         over |-> b1.over, won |-> game_won])
    ELSE IF MayToggle(button, cell_states[<<row, col>>])
         THEN LET f1 == ToggleFlag([cs |-> cell_states,
                                    flags |-> flags_placed], row, col)
              IN  AfterCheck(m1, g1, loc, first,
                             [cs |-> f1.cs, flags |-> f1.flags,
                              over |-> game_over, won |-> game_won])
         ELSE AfterCheck(m1, g1, loc, first,
                         [cs |-> cell_states, flags |-> flags_placed,
                          over |-> game_over, won |-> game_won])

\* the state after an in-range click on a game that is not finished; loc is
\* the mine set the placement ends with
Dispatch(row, col, button, loc) ==
    IF Placing(button, first_click)
    THEN Branches(UpdatedMineCount(mines, row, col),
                  CalculateAdjacentMines(MarkMines(grid, loc)),
                  loc, FALSE, row, col, button)
    ELSE Branches(mines, grid, mines_location, first_click, row, col, button)

HandleClick(mouse_pos, button) ==
    LET col == ClickCol(mouse_pos)
        row == ClickRow(mouse_pos)
        inrange == InBounds(row, col)
    IN  /\ last' = IF Finished(game_over, game_won) THEN EarlyReturn("finished")
                    ELSE IF ~inrange THEN EarlyReturn("outside")
                    ELSE IF button \in {LEFT_BUTTON, RIGHT_BUTTON}
                         THEN Call("click", "dispatched", button, row, col)
                         ELSE [EarlyReturn("dispatched") EXCEPT
                                   !.button = button]
        /\ IF Finished(game_over, game_won) \/ ~inrange
           THEN UNCHANGED <<mines, grid, cell_states, flags_placed,
                            mines_location, first_click, game_over, game_won>>
           ELSE \E loc \in (IF Placing(button, first_click)
                            THEN PlaceMines(mines, row, col)
                            ELSE {mines_location}) :
                \E n \in {Dispatch(row, col, button, loc)} :
                    /\ mines' = n.mines
                    /\ grid' = n.grid
                    /\ mines_location' = n.loc
                    /\ first_click' = n.first
                    /\ cell_states' = n.cs
                    /\ flags_placed' = n.flags
                    /\ game_over' = n.over
                    /\ game_won' = n.won
        /\ UNCHANGED <<rows, cols>>
        /\ UNCHANGED settings
        /\ UNCHANGED placement
        /\ UNCHANGED app

\* the player places a new flag only while fewer than MaxFlags are placed
WithinFlagBound(mouse_pos, button) ==
    (/\ button = RIGHT_BUTTON
     /\ ~Finished(game_over, game_won)
     /\ InBounds(ClickRow(mouse_pos), ClickCol(mouse_pos))
     /\ cell_states[<<ClickRow(mouse_pos), ClickCol(mouse_pos)>>] = HIDDEN)
        => flags_placed < MaxFlags

Click == \E mouse_pos \in MousePositions, button \in Buttons :
             /\ WithinFlagBound(mouse_pos, button)
             /\ HandleClick(mouse_pos, button)

Next == Click \/ Reset

Spec == Init /\ [][Next]_vars

\* ---- direct calls of the public methods reveal and toggle_flag -----------------------

DirectReveal(row, col) ==
    LET b1 == Reveal([cs |-> cell_states, over |-> game_over], grid, row, col)
    IN  /\ cell_states' = b1.cs
        /\ game_over' = b1.over
        /\ last' = Call("reveal", "none", 0, row, col)
        /\ UNCHANGED <<rows, cols, mines, grid, flags_placed, mines_location,
                       first_click, game_won>>
        /\ UNCHANGED settings
        /\ UNCHANGED placement
        /\ UNCHANGED app

DirectToggleFlag(row, col) ==
    LET f1 == ToggleFlag([cs |-> cell_states, flags |-> flags_placed], row, col)
    IN  /\ cell_states' = f1.cs
        /\ flags_placed' = f1.flags
        /\ last' = Call("toggle_flag", "none", 0, row, col)
        /\ UNCHANGED <<rows, cols, mines, grid, mines_location, first_click,
                       game_over, game_won>>
        /\ UNCHANGED settings
        /\ UNCHANGED placement
        /\ UNCHANGED app

\* the program itself reaches reveal and toggle_flag only through
\* handle_click; the direct calls are those made on a board whose game is over
RevealCall == \E x \in Cells : game_over /\ DirectReveal(x[1], x[2])

ToggleFlagCall == \E x \in Cells :
                      /\ game_over
                      /\ cell_states[x] = HIDDEN => flags_placed < MaxFlags
                      /\ DirectToggleFlag(x[1], x[2])

NextDirect == Click \/ Reset \/ RevealCall \/ ToggleFlagCall

SpecDirect == Init /\ [][NextDirect]_vars

\* reveal called directly on a FLAGGED cell of a game that is not over
RevealFlaggedCall == \E x \in Cells :
                         /\ ~game_over
                         /\ cell_states[x] = FLAGGED
                         /\ DirectReveal(x[1], x[2])

NextAttempt == Click \/ Reset \/ RevealFlaggedCall

SpecAttempt == Init /\ [][NextAttempt]_vars

\* ---- the first left click, with the sampling loop of _place_mines in steps ---------
\* handle_click up to the while loop: the mine set cleared, the safe zone
\* built, mines_to_place computed
BeginPlacing(first_click_row, first_click_col) ==
    /\ placement.pc = "idle"
    /\ ~Finished(game_over, game_won)
    /\ InBounds(first_click_row, first_click_col)
    /\ Placing(LEFT_BUTTON, first_click)
    /\ mines_location' = {}
    /\ placement' =
           [pc |-> "loop",
            first_click_row |-> first_click_row,
            first_click_col |-> first_click_col,
            safe_zone |-> SafeZone(first_click_row, first_click_col),
            placed_mines |-> 0,
            mines_to_place |->
                MinesToPlace(mines, SafeZone(first_click_row, first_click_col)),
            row |-> 0 - 1, col |-> 0 - 1]
    /\ UNCHANGED <<rows, cols, mines, grid, cell_states, flags_placed,
                   first_click, game_over, game_won, last>>
    /\ UNCHANGED settings
    /\ UNCHANGED app

\* one iteration of the while loop: (row, col) is the pair that the two
\* random.randint calls return
Sample(row, col) ==
    /\ placement.pc = "loop"
    /\ placement.placed_mines < placement.mines_to_place
    /\ IF <<row, col>> \notin mines_location
          /\ <<row, col>> \notin placement.safe_zone
       THEN /\ mines_location' = mines_location \cup {<<row, col>>}
            /\ grid' = [grid EXCEPT ![<<row, col>>] = MINE_VALUE]
            /\ placement' = [placement EXCEPT
                                 !.placed_mines = placement.placed_mines + 1,
                                 !.row = row, !.col = col]
       ELSE /\ UNCHANGED <<mines_location, grid>>
            /\ placement' = [placement EXCEPT !.row = row, !.col = col]
    /\ UNCHANGED <<rows, cols, mines, cell_states, flags_placed, first_click,
                   game_over, game_won, last>>
    /\ UNCHANGED settings
    /\ UNCHANGED app

\* the samples random.randint can return
Sampling == \E row \in 0 .. rows - 1, col \in 0 .. cols - 1 : Sample(row, col)

\* the samples that the loop accepts
AcceptedSampling ==
    \E x \in Cells \ (mines_location \cup placement.safe_zone) :
        Sample(x[1], x[2])

\* the loop is left and the mine count is updated
ExitLoop ==
    /\ placement.pc = "loop"
    /\ ~(placement.placed_mines < placement.mines_to_place)
    /\ mines' = placement.mines_to_place
    /\ placement' = [placement EXCEPT !.pc = "placed"]
    /\ UNCHANGED <<rows, cols, grid, cell_states, flags_placed,
                   mines_location, first_click, game_over, game_won, last>>
    /\ UNCHANGED settings
    /\ UNCHANGED app

\* handle_click goes on with the adjacency counts, the reveal and the win
\* check
FinishClick ==
    /\ placement.pc = "placed"
    /\ last' = Call("click", "dispatched", LEFT_BUTTON,
                    placement.first_click_row, placement.first_click_col)
    /\ \E n \in {Branches(mines,
                           CalculateAdjacentMines(grid), mines_location, FALSE,
                           placement.first_click_row,
                           placement.first_click_col, LEFT_BUTTON)} :
           /\ mines' = n.mines
           /\ grid' = n.grid
           /\ mines_location' = n.loc
           /\ first_click' = n.first
           /\ cell_states' = n.cs
           /\ flags_placed' = n.flags
           /\ game_over' = n.over
           /\ game_won' = n.won
    /\ placement' = NoPlacement
    /\ UNCHANGED <<rows, cols>>
    /\ UNCHANGED settings
    /\ UNCHANGED app

FirstClick == \E x \in Cells : BeginPlacing(x[1], x[2])

\* the board is reset between calls of handle_click only
ResetCall == placement.pc = "idle" /\ Reset

NextPlacement ==
    FirstClick \/ Sampling \/ ExitLoop \/ FinishClick \/ ResetCall

\* random.randint draws every cell with probability 1 / (rows * cols) at
\* every iteration, so a sample that the loop accepts is not avoided for
\* ever while there is one; the statement after the loop runs
SpecPlacement ==
    /\ Init
    /\ [][NextPlacement]_vars
    /\ WF_vars(AcceptedSampling)
    /\ WF_vars(ExitLoop)

\* ---- the application loop of main ---------------------------------------------------------
\* Board(settings.GRID_ROWS, settings.GRID_COLS, settings.NUM_MINES); while
\* game_board is None the Board fields hold these values too
NewBoard ==
    /\ rows' = GRID_ROWS
    /\ cols' = GRID_COLS
    /\ mines' = NUM_MINES
    /\ grid' = EmptyGrid(GRID_ROWS, GRID_COLS)
    /\ cell_states' = HiddenStates(GRID_ROWS, GRID_COLS)
    /\ flags_placed' = 0
    /\ mines_location' = {}
    /\ first_click' = TRUE
    /\ game_over' = FALSE
    /\ game_won' = FALSE
    /\ last' = NoCall

\* main before the loop: the home screen, no board
InitApp ==
    /\ GRID_ROWS \in 1 .. MaxRows
    /\ GRID_COLS \in 1 .. Min(MaxCols, MaxCells \div GRID_ROWS)
    /\ NUM_MINES \in 0 .. MaxMines
    /\ rows = GRID_ROWS
    /\ cols = GRID_COLS
    /\ mines = NUM_MINES
    /\ grid = EmptyGrid(GRID_ROWS, GRID_COLS)
    /\ cell_states = HiddenStates(GRID_ROWS, GRID_COLS)
    /\ flags_placed = 0
    /\ mines_location = {}
    /\ first_click = TRUE
    /\ game_over = FALSE
    /\ game_won = FALSE
    /\ last = NoCall
    /\ placement = NoPlacement
    /\ current_state = HOME
    /\ game_board = FALSE

go_to_home ==
    /\ current_state' = HOME
    /\ game_board' = FALSE
    /\ NewBoard
    /\ UNCHANGED settings
    /\ UNCHANGED placement

go_to_play ==
    /\ NewBoard
    /\ game_board' = TRUE
    /\ current_state' = PLAYING
    /\ UNCHANGED settings
    /\ UNCHANGED placement

go_to_colours ==
    /\ current_state' = COLOUR_SETTINGS
    /\ UNCHANGED <<game_board, board, last>>
    /\ UNCHANGED settings
    /\ UNCHANGED placement

\* reset_game assigns nothing to current_state
reset_game ==
    IF game_board THEN Reset ELSE UNCHANGED vars

\* the MOUSEBUTTONDOWN branch of the event loop hands the click to the board
Dispatched(state, has_board) == state = PLAYING /\ has_board

MouseButtonDown == \E mouse_pos \in MousePositions, button \in Buttons :
    IF Dispatched(current_state, game_board)
    THEN /\ WithinFlagBound(mouse_pos, button)
         /\ HandleClick(mouse_pos, button)
    ELSE UNCHANGED vars

\* draw_game_screen draws "Play Again" on a board with a status message
PlayAgainDrawnAlways(won, over) == TRUE

PlayAgainDrawn(won, over) == won \/ over

\* ui.button calls its action while the left button is held over it; the
\* buttons are polled when the screen of current_state is drawn
PlayButton == current_state = HOME /\ go_to_play

ColoursButton == current_state = HOME /\ go_to_colours

BackButton == current_state = COLOUR_SETTINGS /\ go_to_home

PlayAgainButton ==
    /\ current_state = PLAYING
    /\ game_board
    /\ PlayAgainDrawn(game_won, game_over)
    /\ reset_game

\* "Back to Home" of the game screen and, without a board, the fallback of
\* the PLAYING branch both call go_to_home
BackToHomeButton == current_state = PLAYING /\ go_to_home

NextApp ==
    \/ MouseButtonDown
    \/ PlayButton
    \/ ColoursButton
    \/ BackButton
    \/ PlayAgainButton
    \/ BackToHomeButton

SpecApp == InitApp /\ [][NextApp]_vars

\* ==== properties ===========================================================================
FlaggedCells == {x \in Cells : cell_states[x] = FLAGGED}

MineCells == {x \in Cells : grid[x] = MINE_VALUE}

boardState == <<mines, grid, cell_states, flags_placed, mines_location,
                first_click, game_over, game_won>>

\* C1: in every state reached by handle_click and reset calls, flags_placed
\* equals the number of cells whose state is FLAGGED.
C1_FlagsPlacedCountsFlagged == flags_placed = Cardinality(FlaggedCells)

\* a left click has won a game in which the player had flagged one mine and
\* the win check flagged the other
C1_Witness ==
    /\ last.op = "click" /\ last.path = "dispatched"
    /\ last.button = LEFT_BUTTON /\ last.phase = "progress"
    /\ game_won
    /\ flags_placed = 2

\* C2: once game_over or game_won is true, a handle_click call with any
\* button at any position leaves the state of the board as it was.
C2_FinishedClickChangesNothing ==
    [][((game_over \/ game_won) /\ last'.op = "click")
           => UNCHANGED boardState]_vars

\* a click has been handled on a lost board
C2_Witness ==
    /\ last.op = "click" /\ last.phase = "lost"
    /\ game_over /\ ~game_won
    /\ \E x \in Cells : cell_states[x] = HIDDEN

\* C3: once game_over is true, a direct call of reveal or of toggle_flag on
\* an in-range cell changes no cell state and leaves flags_placed unchanged.
C3_DirectCallsAfterGameOverChangeNothing ==
    [][(game_over /\ last'.op \in {"reveal", "toggle_flag"})
           => UNCHANGED <<cell_states, flags_placed>>]_vars

\* C4: after every completed handle_click, game_won is true if and only if
\* every non-mine cell is REVEALED.
C4_WonIffEverySafeCellRevealed ==
    last.op = "click"
        => (game_won <=>
                \A x \in Cells : grid[x] # MINE_VALUE
                                     => cell_states[x] = REVEALED)

\* the state is the one a first left click on an in-range cell produced
PlacementClick ==
    /\ last.op = "click" /\ last.path = "dispatched"
    /\ last.button = LEFT_BUTTON /\ last.phase = "unmined"

Abs(n) == IF n < 0 THEN 0 - n ELSE n

\* the cells of the grid at most one row and one column away from (r, c)
Neighbourhood(r, c) ==
    {x \in Cells : Abs(x[1] - r) <= 1 /\ Abs(x[2] - c) <= 1}

\* C5: after the mine placement of a first primary click at (r, c), no cell
\* of the 3x3 neighbourhood of (r, c), clipped to the grid and (r, c)
\* included, is a mine.
C5_NoMineAroundFirstClick ==
    PlacementClick
        => \A x \in Neighbourhood(last.row, last.col) :
               grid[x] # MINE_VALUE /\ x \notin mines_location

\* a first click, made on a flagged cell, that placed a mine
C5_Witness ==
    /\ PlacementClick /\ last.was = FLAGGED
    /\ mines_location # {}

AdjacentMineCells(x) ==
    {y \in Neighbourhood(x[1], x[2]) : y # x /\ grid[y] = MINE_VALUE}

\* C6: once the adjacency has been calculated, and until reset, the grid
\* value of every non-mine cell is the number of mine cells among its
\* in-bounds neighbours.
C6_CountsAreAdjacentMines ==
    ~first_click
        => \A x \in Cells :
               grid[x] # MINE_VALUE
                   => grid[x] = Cardinality(AdjacentMineCells(x))

\* a cell with two mine neighbours, one of them diagonal
C6_Witness ==
    /\ ~first_click
    /\ \E x \in Cells :
           /\ grid[x] = 2
           /\ \E y \in AdjacentMineCells(x) : y[1] # x[1] /\ y[2] # x[2]

\* the step is a left click that reveals the HIDDEN cell it names
RevealingClick ==
    /\ ~game_over /\ ~game_won
    /\ last'.op = "click" /\ last'.path = "dispatched"
    /\ last'.button = LEFT_BUTTON
    /\ cell_states[<<last'.row, last'.col>>] = HIDDEN

\* C7: when a primary click reveals a mine cell, game_over becomes true,
\* game_won stays false, every mine cell that is not FLAGGED becomes
\* REVEALED, every FLAGGED cell stays FLAGGED and no non-mine cell changes.
C7_LossRevealsUnflaggedMines ==
    [][(RevealingClick /\ grid'[<<last'.row, last'.col>>] = MINE_VALUE)
           => /\ game_over' /\ ~game_won'
              /\ \A x \in Cells :
                     /\ (grid'[x] = MINE_VALUE /\ cell_states[x] # FLAGGED)
                            => cell_states'[x] = REVEALED
                     /\ cell_states[x] = FLAGGED => cell_states'[x] = FLAGGED
                     /\ grid'[x] # MINE_VALUE
                            => cell_states'[x] = cell_states[x]]_vars

\* a game lost by a left click on a HIDDEN mine while another mine was flagged
C7_Witness ==
    /\ last.op = "click" /\ last.path = "dispatched"
    /\ last.button = LEFT_BUTTON /\ last.was = HIDDEN
    /\ grid[<<last.row, last.col>>] = MINE_VALUE
    /\ cell_states[<<last.row, last.col>>] = REVEALED
    /\ game_over /\ ~game_won
    /\ \E x \in MineCells : cell_states[x] = FLAGGED

Adjacent(x, y) == x # y /\ Abs(x[1] - y[1]) <= 1 /\ Abs(x[2] - y[2]) <= 1

\* the cells reached from S by steps from a zero-count cell to an adjacent
\* cell of open
RECURSIVE Grow(_, _, _)
Grow(S, g, open) ==
    LET T == S \cup {y \in open : \E x \in S : g[x] = 0 /\ Adjacent(x, y)}
    IN  IF T = S THEN S ELSE Grow(T, g, open)

\* the maximal 8-connected zero-count region of x and the cells bordering it
RegionAndBorder(x, g) == Grow({x}, g, Cells)

\* what the cascade from x reaches through cells that are HIDDEN
Reached(x, g, cs) == Grow({x}, g, {y \in Cells : cs[y] = HIDDEN})

\* C8 as claimed: revealing a zero-count cell reveals the whole maximal
\* 8-connected zero-count region and the positive-count cells bordering it,
\* the FLAGGED cells of it excepted, which are not altered.
C8_CascadeRevealsWholeRegion ==
    [][(RevealingClick /\ grid'[<<last'.row, last'.col>>] = 0)
           => \A x \in RegionAndBorder(<<last'.row, last'.col>>, grid') :
                  cell_states'[x] = IF cell_states[x] = FLAGGED THEN FLAGGED
                                    ELSE REVEALED]_vars

\* C8 as amended: revealing a HIDDEN zero-count cell reveals exactly the
\* cells reached from it by 8-connected steps through HIDDEN zero-count
\* cells (those cells and their HIDDEN neighbours); every other cell,
\* FLAGGED ones included, keeps its state, but for the HIDDEN mines that a
\* win flags.
C8_CascadeRevealsReachedCells ==
    [][(RevealingClick /\ grid'[<<last'.row, last'.col>>] = 0)
           => \A x \in Cells :
                  IF x \in Reached(<<last'.row, last'.col>>, grid',
                                   cell_states)
                  THEN cell_states'[x] = REVEALED
                  ELSE \/ cell_states'[x] = cell_states[x]
                       \/ /\ game_won' /\ grid'[x] = MINE_VALUE
                          /\ cell_states[x] = HIDDEN
                          /\ cell_states'[x] = FLAGGED]_vars

\* a first click on a zero-count cell whose cascade revealed a positive-count
\* cell and left a flagged zero-count cell of the region as it was
C8_Witness ==
    /\ PlacementClick /\ last.was = HIDDEN
    /\ grid[<<last.row, last.col>>] = 0
    /\ \E x \in Cells : grid[x] > 0 /\ cell_states[x] = REVEALED
    /\ \E x \in RegionAndBorder(<<last.row, last.col>>, grid) :
           cell_states[x] = FLAGGED /\ grid[x] = 0

\* C9: until the first in-range primary click no cell is a mine and the
\* mine set is empty; that click, and no other call, places the mines; no
\* later click changes the mine set or the grid.
C9_MinesPlacedOnceByFirstPrimaryClick ==
    /\ [](first_click
              => mines_location = {} /\ \A x \in Cells : grid[x] = 0)
    /\ [][/\ (first_click /\ ~first_click')
                 => /\ last'.op = "click" /\ last'.path = "dispatched"
                    /\ last'.button = LEFT_BUTTON
          /\ (/\ first_click /\ ~game_over /\ ~game_won
              /\ last'.op = "click" /\ last'.path = "dispatched"
              /\ last'.button = LEFT_BUTTON)
                 => ~first_click'
          /\ (~first_click /\ last'.op = "click")
                 => UNCHANGED <<mines_location, grid, mines, first_click>>
         ]_vars

\* a left click on a HIDDEN cell of a board whose mines were placed before
C9_Witness ==
    /\ last.op = "click" /\ last.path = "dispatched"
    /\ last.button = LEFT_BUTTON /\ last.phase = "progress"
    /\ last.was = HIDDEN
    /\ mines_location # {}

\* C10: after mine placement the number of cells holding the mine marker,
\* the size of mines_location and the mine count of the board are equal, the
\* cells holding the marker are those of mines_location, and the count is
\* min(requested mines, rows * cols - size of the safe zone).
C10_MineCountAfterPlacement ==
    /\ ~first_click
           => /\ MineCells = mines_location
              /\ Cardinality(MineCells) = mines
              /\ Cardinality(mines_location) = mines
    /\ PlacementClick
           => mines = Min(NUM_MINES,
                          (rows * cols)
                              - Cardinality(Neighbourhood(last.row, last.col)))

\* a placement that had room for some of the requested mines only
C10_Witness ==
    /\ PlacementClick
    /\ 0 < mines /\ mines < NUM_MINES
    /\ Cardinality(mines_location) = mines

\* the step is an attempt to reveal a FLAGGED cell: a left click on it, or a
\* direct call of reveal
RevealAttemptOnFlagged ==
    /\ \/ last'.op = "reveal"
       \/ /\ last'.op = "click" /\ last'.path = "dispatched"
          /\ last'.button = LEFT_BUTTON
    /\ last'.was = FLAGGED

\* C11: an attempt to reveal a FLAGGED cell, by a primary click on it or by
\* reveal(row, col), leaves the cell FLAGGED, leaves flags_placed unchanged
\* and reveals no other cell.
C11_RevealAttemptLeavesFlagged ==
    [][RevealAttemptOnFlagged
           => /\ cell_states'[<<last'.row, last'.col>>] = FLAGGED
              /\ flags_placed' = flags_placed
              /\ \A x \in Cells : cell_states'[x] = REVEALED
                                      => cell_states[x] = REVEALED]_vars

\* C12: between resets a handle_click call changes the state of a cell only
\* from HIDDEN to FLAGGED, from FLAGGED to HIDDEN or from HIDDEN to
\* REVEALED: a REVEALED cell keeps its state and a FLAGGED cell is never
\* REVEALED in one step.
C12_CellTransitions ==
    [][last'.op = "click"
           => \A x \in Cells :
                  \/ cell_states'[x] = cell_states[x]
                  \/ cell_states[x] = HIDDEN /\ cell_states'[x] = FLAGGED
                  \/ cell_states[x] = FLAGGED /\ cell_states'[x] = HIDDEN
                  \/ cell_states[x] = HIDDEN /\ cell_states'[x] = REVEALED]_vars

\* a left click on a FLAGGED cell of a game in progress, which has REVEALED
\* cells
C12_Witness ==
    /\ last.op = "click" /\ last.path = "dispatched"
    /\ last.button = LEFT_BUTTON /\ last.phase = "progress"
    /\ last.was = FLAGGED
    /\ cell_states[<<last.row, last.col>>] = FLAGGED
    /\ \E x \in Cells : cell_states[x] = REVEALED

\* the state of the board: unmined, progress (mined and not over), lost, won
BoardPhase == Phase(first_click, game_over, game_won)

WinningClick == ~game_won /\ game_won' /\ last'.op = "click"

\* the cell whose flag the secondary click of the step toggled before the
\* win check ran, and flags_placed as that toggle left it
ToggledCells ==
    IF last'.button = RIGHT_BUTTON /\ last'.was # REVEALED
    THEN {<<last'.row, last'.col>>} ELSE {}

FlagsBeforeCheck ==
    IF last'.button # RIGHT_BUTTON THEN flags_placed
    ELSE IF last'.was = HIDDEN THEN flags_placed + 1
    ELSE IF last'.was = FLAGGED THEN flags_placed - 1
    ELSE flags_placed

\* C14: when the win check of a click sets game_won, it sets game_over in
\* the same step, every mine cell that was HIDDEN becomes FLAGGED,
\* flags_placed grows by exactly the number of those cells, and every cell
\* that was REVEALED or FLAGGED keeps its state.
C14_WinFlagsHiddenMines ==
    [][WinningClick
           => /\ game_over'
              /\ \A x \in Cells \ ToggledCells :
                     /\ (grid'[x] = MINE_VALUE /\ cell_states[x] = HIDDEN)
                            => cell_states'[x] = FLAGGED
                     /\ cell_states[x] \in {REVEALED, FLAGGED}
                            => cell_states'[x] = cell_states[x]
              /\ flags_placed'
                     = FlagsBeforeCheck
                       + Cardinality({x \in Cells \ ToggledCells :
                                         /\ grid'[x] = MINE_VALUE
                                         /\ cell_states[x] = HIDDEN})]_vars

\* a first click that won a game with mines: the win check flagged them all
C14_Witness ==
    /\ PlacementClick /\ last.was = HIDDEN
    /\ game_won /\ game_over
    /\ Cardinality(mines_location) = 2
    /\ flags_placed = 2
    /\ \A x \in mines_location : cell_states[x] = FLAGGED

\* C15: in every reachable state, game_won implies game_over.
C15_WonImpliesOver == game_won => game_over

\* a game with one mine, won by a left click on a HIDDEN cell
C15_Witness ==
    /\ last.op = "click" /\ last.path = "dispatched"
    /\ last.button = LEFT_BUTTON /\ last.phase = "progress"
    /\ last.was = HIDDEN
    /\ mines = 1
    /\ game_won /\ game_over

\* the window pixels of MousePositions that lie left of, right of, above or
\* below the rectangle of the rows x cols cells
OutsidePositions ==
    {p \in MousePositions :
         \/ p[1] < GAME_AREA_X
         \/ p[1] >= GAME_AREA_X + (cols * CELL_SIZE)
         \/ p[2] < GAME_AREA_Y
         \/ p[2] >= GAME_AREA_Y + (rows * CELL_SIZE)}

\* C16: a handle_click at a position outside the grid, with any button,
\* changes no cell state, places no mines, leaves first_click, flags_placed,
\* game_over and game_won as they were, and is defined (the call returns).
C16_OutsideClickIsNoOp ==
    [][\/ UNCHANGED boardState
       \/ \A p \in OutsidePositions, b \in Buttons : ~HandleClick(p, b)]_vars

\* a click outside the grid on a board that has a flag and no mines yet
C16_Witness ==
    /\ last.op = "click" /\ last.path = "outside"
    /\ last.phase = "unmined"
    /\ first_click /\ ~game_over /\ ~game_won
    /\ flags_placed = 1

\* the fields of Board(GRID_ROWS, GRID_COLS, NUM_MINES) after __init__
FreshBoard ==
    <<GRID_ROWS, GRID_COLS, NUM_MINES, EmptyGrid(GRID_ROWS, GRID_COLS),
      HiddenStates(GRID_ROWS, GRID_COLS), 0, {}, TRUE, FALSE, FALSE>>

\* C17: after reset(), whatever the state before, every cell is HIDDEN,
\* every grid value is 0, the mine set is empty, flags_placed is 0,
\* game_over and game_won are false, first_click is true, rows, cols and
\* mines are those of the settings, and the board equals a freshly
\* constructed Board(GRID_ROWS, GRID_COLS, NUM_MINES).
C17_ResetRestoresInitialState ==
    last.op = "reset"
        => /\ rows = GRID_ROWS /\ cols = GRID_COLS /\ mines = NUM_MINES
           /\ DOMAIN grid = Cells /\ DOMAIN cell_states = Cells
           /\ \A x \in Cells : grid[x] = 0 /\ cell_states[x] = HIDDEN
           /\ mines_location = {}
           /\ flags_placed = 0
           /\ first_click /\ ~game_over /\ ~game_won
           /\ board = FreshBoard

\* a reset of a won game on a 1 x 3 board with 2 requested mines, of which
\* the placement had room for one at most
C17_Witness ==
    /\ last.op = "reset" /\ last.phase = "won"
    /\ rows = 1 /\ cols = 3
    /\ NUM_MINES = 2 /\ mines = 2

\* the step is a secondary click on an in-range cell of a game that is not
\* over
SecondaryClick ==
    /\ last'.op = "click" /\ last'.path = "dispatched"
    /\ last'.button = RIGHT_BUTTON

\* C18: a secondary click on a REVEALED cell changes nothing; on a HIDDEN
\* cell it makes the cell FLAGGED and adds 1 to flags_placed; on a FLAGGED
\* cell it makes the cell HIDDEN and subtracts 1 from flags_placed; it
\* changes nothing else of the board, the game is still not over, and so a
\* second secondary click on the same cell restores the board.
C18_SecondaryClickTogglesOnly ==
    [][SecondaryClick
           => /\ last'.was = REVEALED => UNCHANGED boardState
              /\ last'.was = HIDDEN
                     => /\ cell_states'[<<last'.row, last'.col>>] = FLAGGED
                        /\ flags_placed' = flags_placed + 1
              /\ last'.was = FLAGGED
                     => /\ cell_states'[<<last'.row, last'.col>>] = HIDDEN
                        /\ flags_placed' = flags_placed - 1
              /\ \A y \in Cells \ {<<last'.row, last'.col>>} :
                     cell_states'[y] = cell_states[y]
              /\ UNCHANGED <<mines, grid, mines_location, first_click,
                             game_over, game_won>>]_vars

\* the step is the first primary click of a board, on an in-range cell
\* whose 3x3 neighbourhood covers the whole grid
FirstClickCoversGrid ==
    /\ first_click /\ ~game_over /\ ~game_won
    /\ last'.op = "click" /\ last'.path = "dispatched"
    /\ last'.button = LEFT_BUTTON
    /\ Neighbourhood(last'.row, last'.col) = Cells

\* C19 as claimed: whenever the safe zone of the first primary click covers
\* the whole grid, the placement clamps to 0 mines, the click reveals every
\* cell, all counts are 0, and game_won is true when the click returns.
C19_CoveringClickWins ==
    [][FirstClickCoversGrid
           => /\ mines' = 0 /\ mines_location' = {}
              /\ \A x \in Cells : grid'[x] = 0 /\ cell_states'[x] = REVEALED
              /\ game_won']_vars

\* C19 as amended: whenever the safe zone of the first primary click covers
\* the whole grid, the placement clamps to 0 mines and all counts are 0; if
\* no cell is FLAGGED at the click, the click reveals every cell and
\* game_won is true when it returns; if some cell is FLAGGED, the FLAGGED
\* cells stay FLAGGED and the game is not won.
C19_CoveringClickWinsUnlessFlagged ==
    [][FirstClickCoversGrid
           => /\ mines' = 0 /\ mines_location' = {}
              /\ \A x \in Cells : grid'[x] = 0
              /\ FlaggedCells = {}
                     => /\ \A x \in Cells : cell_states'[x] = REVEALED
                        /\ game_won' /\ game_over'
              /\ FlaggedCells # {}
                     => /\ \A x \in FlaggedCells : cell_states'[x] = FLAGGED
                        /\ ~game_won']_vars

\* a first click in the middle of the upper row of a 2 x 3 board with 2
\* requested mines: no mine placed, every cell revealed, the game won
C19_Witness ==
    /\ PlacementClick /\ last.was = HIDDEN
    /\ rows = 2 /\ cols = 3 /\ NUM_MINES = 2
    /\ Neighbourhood(last.row, last.col) = Cells
    /\ mines = 0 /\ mines_location = {}
    /\ \A x \in Cells : grid[x] = 0 /\ cell_states[x] = REVEALED
    /\ game_won

\* the cells that the sampling loop can still turn into mines
FreeCells == Cells \ (mines_location \cup placement.safe_zone)

InLoop == placement.pc = "loop"

\* C20: while the sampling loop has placed fewer than mines_to_place mines,
\* some cell of the grid is outside the safe zone and not yet a mine; under
\* fair sampling the loop is left, and it is left with exactly
\* mines_to_place distinct mines, none of them in the safe zone.
C20_SamplingLoopTerminates ==
    /\ []((InLoop /\ placement.placed_mines < placement.mines_to_place)
              => FreeCells # {})
    /\ [](InLoop
              => /\ placement.placed_mines = Cardinality(mines_location)
                 /\ mines_location = MineCells
                 /\ mines_location \cap placement.safe_zone = {})
    /\ [][(InLoop /\ ~InLoop')
              => /\ Cardinality(mines_location') = placement.mines_to_place
                 /\ mines_location' \cap placement.safe_zone = {}
                 /\ mines' = placement.mines_to_place]_vars
    /\ (InLoop ~> ~InLoop)

\* the loop has placed the first of two mines and has just rejected a
\* sample, a cell of the safe zone or the mine already placed
C20_Witness ==
    /\ InLoop
    /\ placement.mines_to_place = 2
    /\ placement.placed_mines = 1
    /\ <<placement.row, placement.col>>
           \in mines_location \cup placement.safe_zone

\* C21: the reveal call of a click returns; during it each cell is set to
\* REVEALED at most once, the cells it sets are those that were not
\* REVEALED before and are REVEALED after, and the nesting depth of the
\* recursive reveal calls is at most rows * cols.
C21_RevealTerminates ==
    [][RevealingClick
           => \A t \in {RevealTraced(Untraced(cell_states, game_over), grid',
                                     last'.row, last'.col, 1)} :
                  /\ \A x \in Cells : t.writes[x] <= 1
                  /\ 1 <= t.deepest /\ t.deepest <= rows * cols
                  /\ t.over = game_over' \/ game_won'
                  /\ \A x \in Cells :
                         (cell_states'[x] = REVEALED) <=> (t.cs[x] = REVEALED)
                  /\ \A x \in Cells :
                         t.writes[x] = 1
                             => /\ cell_states[x] = HIDDEN
                                /\ cell_states'[x] = REVEALED]_vars

\* a first click on a board of 6 cells without mines: the cascade has
\* revealed every cell
C21_Witness ==
    /\ PlacementClick /\ last.was = HIDDEN
    /\ rows * cols = MaxCells /\ NUM_MINES = 0
    /\ \A x \in Cells : cell_states[x] = REVEALED

\* the state is the one a secondary click on a HIDDEN in-range cell produced
FlaggingClick ==
    /\ last.op = "click" /\ last.path = "dispatched"
    /\ last.button = RIGHT_BUTTON /\ last.was = HIDDEN

C23_FirstRevealIsSafe ==
    [][(/\ \A x \in Cells : cell_states[x] # REVEALED
        /\ last'.op = "click"
        /\ \E x \in Cells : cell_states'[x] = REVEALED)
           => /\ \A x \in Cells :
                     cell_states'[x] = REVEALED => grid'[x] # MINE_VALUE
              /\ ~game_over' \/ game_won']_vars

\* C24: a secondary click never ends the game: game_over and game_won are
\* after it what they were before it, also before the mines are placed.
C24_SecondaryClickNeverEndsGame ==
    [][SecondaryClick => UNCHANGED <<game_over, game_won>>]_vars

\* C25: in every reachable state, some mine cell is REVEALED if and only if
\* game_over is true and game_won is false.
C25_RevealedMineIffLost ==
    (\E x \in Cells : grid[x] = MINE_VALUE /\ cell_states[x] = REVEALED)
        <=> (game_over /\ ~game_won)

\* a lost game with both mines revealed
C25_Witness ==
    /\ game_over /\ ~game_won
    /\ Cardinality({x \in MineCells : cell_states[x] = REVEALED}) = 2

\* C26: in every state where game_won is true, the FLAGGED cells are
\* exactly the mine cells and flags_placed equals the mine count of the
\* board, so that the remaining-mines value mines - flags_placed is 0.
C26_WonBoardFlagsExactlyMines ==
    game_won
        => /\ FlaggedCells = MineCells
           /\ flags_placed = mines
           /\ mines - flags_placed = 0

\* the HIDDEN cells that have a REVEALED zero-count neighbour
HiddenNextToRevealedZero(cs, g) ==
    {y \in Cells : /\ cs[y] = HIDDEN
                    /\ \E x \in Cells : /\ Adjacent(x, y)
                                         /\ cs[x] = REVEALED /\ g[x] = 0}

\* C27 as claimed: after every completed handle_click in a game that is not
\* over, every in-bounds neighbour of a REVEALED zero-count cell is REVEALED
\* or FLAGGED.
C27_NoHiddenNextToRevealedZero ==
    (last.op = "click" /\ ~game_over)
        => HiddenNextToRevealedZero(cell_states, grid) = {}

\* C27 as amended: a handle_click leaves every neighbour of a zero-count
\* cell it reveals REVEALED or FLAGGED, and a cell becomes a HIDDEN
\* neighbour of a REVEALED zero-count cell only by the secondary click that
\* removes its flag.
C27_HiddenNextToRevealedZeroWasUnflagged ==
    [][(last'.op = "click" /\ ~UNCHANGED <<cell_states, grid>>)
           => /\ \A x \in Cells :
                     (/\ cell_states[x] # REVEALED
                      /\ cell_states'[x] = REVEALED /\ grid'[x] = 0)
                         => \A y \in Cells :
                                Adjacent(x, y)
                                    => cell_states'[y] \in {REVEALED, FLAGGED}
              /\ \A y \in HiddenNextToRevealedZero(cell_states', grid')
                         \ HiddenNextToRevealedZero(cell_states, grid) :
                     /\ last'.button = RIGHT_BUTTON
                     /\ y = <<last'.row, last'.col>>
                     /\ cell_states[y] = FLAGGED]_vars

\* a secondary click has removed the flag of a cell next to a REVEALED
\* zero-count cell, in a game that is not over
C27_Witness ==
    /\ last.op = "click" /\ last.path = "dispatched"
    /\ last.button = RIGHT_BUTTON /\ last.was = FLAGGED
    /\ ~game_over /\ ~first_click
    /\ <<last.row, last.col>> \in HiddenNextToRevealedZero(cell_states, grid)

\* C28: once the mines are placed, no handle_click changes the grid
\* values, the mine set, rows, cols or the mine count; a step that changes
\* one of them is a reset.
C28_PlacedBoardIsFrozen ==
    [][~first_click
           => /\ last'.op = "click"
                     => UNCHANGED <<grid, mines_location, rows, cols, mines>>
              /\ ~UNCHANGED <<grid, mines_location, rows, cols, mines>>
                     => last'.op = "reset"]_vars

\* a game with one mine, lost by a left click made after the placement
C28_Witness ==
    /\ last.op = "click" /\ last.path = "dispatched"
    /\ last.button = LEFT_BUTTON /\ last.phase = "progress"
    /\ last.was = HIDDEN
    /\ mines = 1 /\ Cardinality(mines_location) = 1
    /\ game_over /\ ~game_won

\* C29: in the application loop a step of handle_click is taken only while
\* current_state is PLAYING and a board exists; a reset is taken only on a
\* board that is game_over or game_won, with current_state PLAYING before
\* and after it; no reset is taken on a game in progress.
C29_ResetOnlyWhenFinished ==
    [][/\ (last'.op = "click" /\ last' # last)
              => Dispatched(current_state, game_board)
       /\ last'.op = "reset"
              => /\ game_over \/ game_won
                 /\ last'.phase \in {"lost", "won"}
                 /\ Dispatched(current_state, game_board)
                 /\ current_state' = PLAYING /\ game_board'
       /\ (~first_click /\ ~game_over /\ ~game_won /\ first_click')
              => last'.op = "init" /\ current_state' = HOME /\ ~game_board'
      ]_vars

\* "Play Again" has reset a lost board of the application; the screen is
\* still the game screen
C29_Witness ==
    /\ last.op = "reset" /\ last.phase = "lost"
    /\ current_state = PLAYING /\ game_board
    /\ first_click /\ ~game_over /\ ~game_won
    /\ \A x \in Cells : cell_states[x] = HIDDEN

====
